---- MODULE Spec2Model ----
(***************************************************************************)
(* Model of profile.cu: the GPU roofline reporter.                         *)
(*                                                                         *)
(* The program's arithmetic runs on C `int` (32-bit two's complement) and  *)
(* on IEEE-754 `double`.  Products of two ints do not fit TLC's native     *)
(* integers, so integer values are carried as little-endian limb sequences *)
(* (radix Base) with an explicit sign, and arithmetic is done on the       *)
(* limbs.  A double is carried as a signed quotient num/den of such        *)
(* integers (or inf / nan); integer-valued double products are rounded to  *)
(* the 53-bit significand (round-to-nearest-even).  The final division by  *)
(* a constant is kept as the exact quotient.                               *)
(***************************************************************************)
EXTENDS Integers, Sequences, FiniteSets, TLC

\* ------------------------------------------------------------------------
\* Unbounded naturals as limb sequences (least significant limb first,
\* no high zero limbs; zero is the empty sequence).
\* ------------------------------------------------------------------------

Base == 2^8

\* Width of the C `int` type in bits, and the limbs it occupies.
IntBits == 32

IntLimbs == IntBits \div 8

\* Significand width of an IEEE-754 double.
DoubleMantissa == 53

RECURSIVE Nat2Big(_)
Nat2Big(n) == IF n = 0 THEN <<>> ELSE <<n % Base>> \o Nat2Big(n \div Base)

RECURSIVE Trim(_)
Trim(s) ==
    IF s = <<>> THEN <<>>
    ELSE IF s[Len(s)] = 0 THEN Trim(SubSeq(s, 1, Len(s) - 1))
    ELSE s

RECURSIVE AddC(_, _, _)
AddC(a, b, c) ==
    IF a = <<>> /\ b = <<>> THEN (IF c = 0 THEN <<>> ELSE <<c>>)
    ELSE LET x == IF a = <<>> THEN 0 ELSE Head(a)
             y == IF b = <<>> THEN 0 ELSE Head(b)
             s == x + y + c
             ta == IF a = <<>> THEN <<>> ELSE Tail(a)
             tb == IF b = <<>> THEN <<>> ELSE Tail(b)
         IN  <<s % Base>> \o AddC(ta, tb, s \div Base)

BigAdd(a, b) == AddC(a, b, 0)

\* a - b for a >= b.
RECURSIVE SubB(_, _, _)
SubB(a, b, w) ==
    IF a = <<>> THEN <<>>
    ELSE LET y == IF b = <<>> THEN 0 ELSE Head(b)
             d == Head(a) - y - w
             tb == IF b = <<>> THEN <<>> ELSE Tail(b)
         IN  IF d < 0 THEN <<d + Base>> \o SubB(Tail(a), tb, 1)
             ELSE <<d>> \o SubB(Tail(a), tb, 0)

BigSub(a, b) == Trim(SubB(a, b, 0))

\* a * d for one limb d.
RECURSIVE MulLimb(_, _, _)
MulLimb(a, d, c) ==
    IF a = <<>> THEN (IF c = 0 THEN <<>> ELSE <<c>>)
    ELSE LET p == Head(a) * d + c
         IN  <<p % Base>> \o MulLimb(Tail(a), d, p \div Base)

RECURSIVE BigMul(_, _)
BigMul(a, b) ==
    IF a = <<>> \/ b = <<>> THEN <<>>
    ELSE LET rest == BigMul(a, Tail(b))
             shifted == IF rest = <<>> THEN <<>> ELSE <<0>> \o rest
         IN  BigAdd(Trim(MulLimb(a, Head(b), 0)), shifted)

\* -1, 0, 1 as a < b, a = b, a > b.
RECURSIVE CmpFrom(_, _, _)
CmpFrom(a, b, i) ==
    IF i = 0 THEN 0
    ELSE IF a[i] < b[i] THEN -1
    ELSE IF a[i] > b[i] THEN 1
    ELSE CmpFrom(a, b, i - 1)

BigCmp(a, b) ==
    IF Len(a) < Len(b) THEN -1
    ELSE IF Len(a) > Len(b) THEN 1
    ELSE CmpFrom(a, b, Len(a))

\* a mod 2^(8k): the low k limbs.
LowLimbs(a, k) == Trim(SubSeq(a, 1, IF Len(a) < k THEN Len(a) ELSE k))

\* 2^(8k).
PowLimbs(k) == [i \in 1..(k + 1) |-> IF i = k + 1 THEN 1 ELSE 0]

\* Bits of a limb sequence, least significant first, and back.
RECURSIVE LimbBits(_, _)
LimbBits(d, k) == IF k = 0 THEN <<>> ELSE <<d % 2>> \o LimbBits(d \div 2, k - 1)

RECURSIVE Big2Bits(_)
Big2Bits(a) == IF a = <<>> THEN <<>> ELSE LimbBits(Head(a), 8) \o Big2Bits(Tail(a))

RECURSIVE BitsVal(_)
BitsVal(s) == IF s = <<>> THEN 0 ELSE Head(s) + 2 * BitsVal(Tail(s))

RECURSIVE Bits2Limbs(_)
Bits2Limbs(s) ==
    IF s = <<>> THEN <<>>
    ELSE IF Len(s) <= 8 THEN <<BitsVal(s)>>
    ELSE <<BitsVal(SubSeq(s, 1, 8))>> \o Bits2Limbs(SubSeq(s, 9, Len(s)))

Bits2Big(s) == Trim(Bits2Limbs(s))

\* ------------------------------------------------------------------------
\* Signed integers: [neg, mag]; zero is never negative.
\* ------------------------------------------------------------------------

MkInt(neg, mag) == [neg |-> (neg /\ mag # <<>>), mag |-> mag]

\* A native non-negative value as a signed integer.
IntOf(n) == MkInt(FALSE, Nat2Big(n))

\* INT_MAX = 2^(IntBits-1) - 1 and 2^(IntBits-1) = -INT_MIN.
IntMax == Bits2Big([i \in 1..(IntBits - 1) |-> 1])

IntMinMag == BigAdd(IntMax, <<1>>)

\* The mathematical product of two signed integers.
SMul(x, y) == MkInt(x.neg # y.neg, BigMul(x.mag, y.mag))

InIntRange(z) ==
    IF z.neg THEN BigCmp(z.mag, IntMinMag) <= 0
    ELSE BigCmp(z.mag, IntMax) <= 0

\* z reduced modulo 2^IntBits into the two's complement range.
Wrap32(z) ==
    LET low == LowLimbs(z.mag, IntLimbs)
        pattern == IF z.neg /\ low # <<>> THEN BigSub(PowLimbs(IntLimbs), low)
                   ELSE low
    IN  IF BigCmp(pattern, IntMax) > 0
        THEN MkInt(TRUE, BigSub(PowLimbs(IntLimbs), pattern))
        ELSE MkInt(FALSE, pattern)

\* Signed overflow of an int product is undefined behaviour.  The outcomes
\* modelled: the product wraps modulo 2^32 (the hardware multiply), or the
\* expression is evaluated as if no overflow occurred (the compiler widens
\* the product on the assumption that overflow cannot happen).
OverflowOutcomes == {"wrap", "wide"}

\* int * int as the build evaluates it.
IntMul(x, y, outcome) ==
    LET z == SMul(x, y)
    IN  IF InIntRange(z) THEN z
        ELSE IF outcome = "wrap" THEN Wrap32(z)
        ELSE z

\* ------------------------------------------------------------------------
\* Doubles.
\* ------------------------------------------------------------------------

Fin(neg, num, den) == [kind |-> "fin", neg |-> (neg /\ num # <<>>), num |-> num, den |-> den]

Inf(neg) == [kind |-> "inf", neg |-> neg, num |-> <<>>, den |-> <<>>]

NaN == [kind |-> "nan", neg |-> FALSE, num |-> <<>>, den |-> <<>>]

\* A literal p/q, p and q small naturals.
Lit(p, q) == Fin(FALSE, Nat2Big(p), Nat2Big(q))

\* A natural rounded to a 53-bit significand, ties to even.
RoundDouble(a) ==
    LET bits == Big2Bits(a)
        top == CHOOSE k \in 0..Len(bits) :
                  /\ (k > 0 => bits[k] = 1)
                  /\ \A j \in (k + 1)..Len(bits) : bits[j] = 0
        drop == top - DoubleMantissa
    IN  IF drop <= 0 THEN a
        ELSE LET hi == SubSeq(bits, drop + 1, top)
                 half == bits[drop] = 1
                 sticky == \E j \in 1..(drop - 1) : bits[j] = 1
                 up == half /\ (sticky \/ hi[1] = 1)
                 kept == Bits2Big(hi)
                 rounded == IF up THEN BigAdd(kept, <<1>>) ELSE kept
             IN  Bits2Big([i \in 1..drop |-> 0] \o Big2Bits(rounded))

\* Integer -> double conversion (exact for every 32-bit int).
IntToDouble(x) == Fin(x.neg, RoundDouble(x.mag), <<1>>)

\* double * double for integer-valued operands (den = 1).
DMul(a, b) == Fin(a.neg # b.neg, RoundDouble(BigMul(a.num, b.num)), <<1>>)

\* double / double for finite operands; IEEE-754 results for a zero divisor.
DDiv(a, b) ==
    IF b.num = <<>>
    THEN (IF a.num = <<>> THEN NaN ELSE Inf(a.neg # b.neg))
    ELSE Fin(a.neg # b.neg, BigMul(a.num, b.den), BigMul(a.den, b.num))

\* a < b on doubles; every comparison with NaN is false.
DLess(a, b) ==
    IF a.kind = "nan" \/ b.kind = "nan" THEN FALSE
    ELSE IF a.kind = "inf" THEN (a.neg /\ ~(b.kind = "inf" /\ b.neg))
    ELSE IF b.kind = "inf" THEN ~b.neg
    ELSE LET l == BigMul(a.num, b.den)
             r == BigMul(b.num, a.den)
         IN  IF a.neg /\ ~b.neg THEN TRUE
             ELSE IF ~a.neg /\ b.neg THEN FALSE
             ELSE IF a.neg THEN BigCmp(l, r) > 0
             ELSE BigCmp(l, r) < 0

\* a = b on doubles.
DEq(a, b) ==
    /\ a.kind # "nan" /\ b.kind # "nan"
    /\ ~DLess(a, b)
    /\ ~DLess(b, a)

\* ------------------------------------------------------------------------
\* The three estimator functions.
\* ------------------------------------------------------------------------

\* Variant of coresPerSM: the two Ampere sub-cases exchanged.
coresPerSM_AmpereSwapped(major, minor) ==
    IF major = 2 THEN 32
    ELSE IF major = 3 THEN 192
    ELSE IF major = 5 THEN 128
    ELSE IF major = 6 THEN (IF minor = 0 THEN 64 ELSE 128)
    ELSE IF major = 7 THEN 64
    ELSE IF major = 8 THEN (IF minor = 0 THEN 128 ELSE 64)
    ELSE IF major = 9 THEN 128
    ELSE 64

\* Cores per SM selected for compute capability major.minor.
coresPerSM(major, minor) ==
    IF major = 2 THEN 32
    ELSE IF major = 3 THEN 192
    ELSE IF major = 5 THEN 128
    ELSE IF major = 6 THEN (IF minor = 0 THEN 64 ELSE 128)
    ELSE IF major = 7 THEN (IF minor = 0 THEN 64 ELSE 64)
    ELSE IF major = 8 THEN (IF minor = 0 THEN 64 ELSE 128)
    ELSE IF major = 9 THEN 128
    ELSE 64

\* int totalCores = coresPerSM * multiProcessorCount;
\* gflops = (totalCores * clockRate * 2.0) / 1000000.0;
\* Both products are int * int; only the product by 2.0 is a double product.
getTheoreticalGFLOPS(major, minor, multiProcessorCount, clockRate, outcome) ==
    LET totalCores == IntMul(IntOf(coresPerSM(major, minor)),
                             IntOf(multiProcessorCount), outcome)
        product == IntMul(totalCores, IntOf(clockRate), outcome)
    IN  DDiv(DMul(IntToDouble(product), Lit(2, 1)), Lit(1000000, 1))

\* Variant of getMemoryBandwidth: the factor 2 written as an int, so that
\* the whole product is an int product (wrapping on overflow).
getMemoryBandwidth_IntProduct(memoryClockRate, memoryBusWidth) ==
    DDiv(IntToDouble(IntMul(IntMul(IntOf(memoryClockRate), IntOf(2), "wrap"),
                            IntOf(memoryBusWidth), "wrap")),
         DMul(Lit(8, 1), Lit(1000, 1)))

\* return (memoryClockRate * 2.0 * memoryBusWidth) / (8.0 * 1000.0);
\* Left to right: int * double, then double * int; no int product occurs.
getMemoryBandwidth(memoryClockRate, memoryBusWidth) ==
    DDiv(DMul(DMul(IntToDouble(IntOf(memoryClockRate)), Lit(2, 1)),
              IntToDouble(IntOf(memoryBusWidth))),
         DMul(Lit(8, 1), Lit(1000, 1)))

\* Variant of calculateBoundaryArithmeticIntensity: the quotient inverted.
calculateBoundaryArithmeticIntensity_Inverted(peakGFLOPS, memoryBandwidthGB) ==
    DDiv(memoryBandwidthGB, peakGFLOPS)

calculateBoundaryArithmeticIntensity(peakGFLOPS, memoryBandwidthGB) ==
    DDiv(peakGFLOPS, memoryBandwidthGB)

\* ------------------------------------------------------------------------
\* main(): state.
\* ------------------------------------------------------------------------

VARIABLES
    pc,           \* position in main: "start", "loop", "report", "exit"
    deviceCount,  \* int deviceCount (written by cudaGetDeviceCount)
    device,       \* the loop variable
    prop,         \* cudaDeviceProp of the device being reported
    events,       \* API calls and writes to stdout / stderr, in program order
    exitCode,     \* the process exit code once pc = "exit"
    outcome,      \* what this build does on signed overflow
    hG,           \* unit call of getTheoreticalGFLOPS: arguments and result
    hPrevG,       \* the call before it (at lower clockRate or SM count)
    hB            \* unit call of getMemoryBandwidth: arguments and result

vars == <<pc, deviceCount, device, prop, events, exitCode, outcome, hG, hPrevG, hB>>

mainVars == <<pc, deviceCount, device, prop, events, exitCode>>

unitVars == <<hG, hPrevG, hB>>

\* Most devices the runtime reports.
MaxDevices == 2

\* Results a CUDA runtime call can report.
CudaErrors == {"cudaSuccess", "cudaErrorFailure"}

Device(major, minor, sm, clock, memClock, busWidth) ==
    [major |-> major, minor |-> minor, multiProcessorCount |-> sm,
     clockRate |-> clock, memoryClockRate |-> memClock,
     memoryBusWidth |-> busWidth]

\* Property records cudaGetDeviceProperties may fill in (rates in kHz).
DeviceCatalogue ==
    { Device(8, 0, 108, 1410000, 1215000, 5120),  \* A100
      Device(8, 0, 108, 320000, 1215000, 5120),   \* product just above INT_MAX
      Device(8, 0, 108, 310000, 1215000, 5120),   \* product just below INT_MAX
      Device(8, 0, 125, 1000, 1000, 8),           \* ridge point 8
      Device(7, 5, 125, 1000, 1000, 32),          \* ridge point 2
      Device(5, 2, 125, 5000, 1000, 16),          \* ridge point 40
      Device(3, 5, 125, 5000, 1000, 16),          \* ridge point 60
      Device(8, 6, 0, 1500000, 7000000, 256),     \* no SM
      Device(6, 1, 20, 0, 5000000, 256),          \* clock 0
      Device(9, 0, 132, 1755000, 0, 5120),        \* memory clock 0
      Device(2, 0, 0, 0, 0, 0),                   \* all zero
      Device(2, 1, 1, 1000, 1000, 64) }           \* ridge point 0.004

NoDevice == Device(0, 0, 0, 0, 0, 0)

\* The representative intensities of the five reference workloads.
Intensity == << Lit(33, 100), Lit(2, 1), Lit(8, 1), Lit(40, 1), Lit(60, 1) >>

\* Variant of Classify: the comparison written as I <= boundaryAI.
Classify_LessOrEqual(I, boundaryAI) ==
    IF DLess(I, boundaryAI) \/ DEq(I, boundaryAI)
    THEN "Memory Bound" ELSE "Computing Bound"

\* if (I < boundaryAI) " -> Memory Bound" else " -> Computing Bound"
Classify(I, boundaryAI) ==
    IF DLess(I, boundaryAI) THEN "Memory Bound" ELSE "Computing Bound"

\* Variant of CUDA_CHECK: the error is ignored and the program goes on.
CUDA_CHECK_Ignored(error) == FALSE

\* CUDA_CHECK: the process exits when the call did not return cudaSuccess.
CUDA_CHECK(error) == error # "cudaSuccess"

\* return 0 at the end of main.
SuccessExitCode == 0

\* Variant of CheckExitCode: CUDA_CHECK leaves with the success code.
CheckExitCode_Success == SuccessExitCode

\* exit(1) in CUDA_CHECK.
CheckExitCode == 1

\* return 1 when no device was found.
NoDeviceExitCode == 1

\* Variant of NextDevice: the loop variable advances by two.
NextDevice_Skip(d) == d + 2

\* ++device
NextDevice(d) == d + 1

\* Variant of NeedSeparator: the rule line follows every section.
NeedSeparator_Always(d, n) == d < n

\* if (device < deviceCount - 1) print the rule line
NeedSeparator(d, n) == d < n - 1

Ev(name) == [ev |-> name]

Stderr == Ev("stderr: CUDA error")

\* ------------------------------------------------------------------------
\* main(): steps.
\* ------------------------------------------------------------------------

MainInit ==
    /\ pc = "start"
    /\ deviceCount = 0
    /\ device = 0
    /\ prop = NoDevice
    /\ events = <<>>
    /\ exitCode = 0

\* Lines 63-71: banner, cudaGetDeviceCount under CUDA_CHECK, the zero test.
GetDeviceCount ==
    /\ pc = "start"
    /\ \E error \in CudaErrors, n \in 0..MaxDevices :
          LET call == [ev |-> "cudaGetDeviceCount",
                       ok |-> (error = "cudaSuccess"),
                       count |-> IF error = "cudaSuccess" THEN n ELSE 0]
          IN  IF CUDA_CHECK(error)
              THEN /\ events' = events \o <<Ev("banner"), call, Stderr>>
                   /\ pc' = "exit"
                   /\ exitCode' = CheckExitCode
                   /\ UNCHANGED <<deviceCount, device>>
              ELSE IF n = 0
              THEN /\ events' = events \o <<Ev("banner"), call, Ev("no device")>>
                   /\ deviceCount' = n
                   /\ pc' = "exit"
                   /\ exitCode' = NoDeviceExitCode
                   /\ UNCHANGED device
              ELSE /\ events' = events \o <<Ev("banner"), call>>
                   /\ deviceCount' = n
                   /\ device' = 0
                   /\ pc' = "loop"
                   /\ UNCHANGED exitCode
    /\ UNCHANGED <<prop, outcome, unitVars>>

\* Lines 73-75: the loop test and cudaGetDeviceProperties under CUDA_CHECK.
QueryDevice ==
    /\ pc = "loop"
    /\ device < deviceCount
    /\ \E error \in CudaErrors, p \in DeviceCatalogue :
          LET call == [ev |-> "cudaGetDeviceProperties", device |-> device,
                       ok |-> (error = "cudaSuccess")]
          IN  IF CUDA_CHECK(error)
              THEN /\ events' = events \o <<call, Stderr>>
                   /\ pc' = "exit"
                   /\ exitCode' = CheckExitCode
                   /\ UNCHANGED prop
              ELSE /\ events' = Append(events, call)
                   /\ prop' = p
                   /\ pc' = "report"
                   /\ UNCHANGED exitCode
    /\ UNCHANGED <<deviceCount, device, outcome, unitVars>>

\* Lines 90-130: what one section shows for the property record p.
Section(p, oc) ==
    LET theoreticalGFLOPS ==
            getTheoreticalGFLOPS(p.major, p.minor, p.multiProcessorCount,
                                 p.clockRate, oc)
        memoryBandwidth ==
            getMemoryBandwidth(p.memoryClockRate, p.memoryBusWidth)
        boundaryAI ==
            calculateBoundaryArithmeticIntensity(theoreticalGFLOPS,
                                                 memoryBandwidth)
    IN  [prop |-> p,
         theoreticalGFLOPS |-> theoreticalGFLOPS,
         memoryBandwidth |-> memoryBandwidth,
         boundaryAI |-> boundaryAI,
         labels |-> << Classify(Intensity[1], boundaryAI),
                       Classify(Intensity[2], boundaryAI),
                       Classify(Intensity[3], boundaryAI),
                       Classify(Intensity[4], boundaryAI),
                       Classify(Intensity[5], boundaryAI) >>]

\* Lines 77-154: the section of one device, the rule line, ++device.
\* The body event stands for the text printed from prop; what that text
\* shows is Section(prop, outcome), see Shown below.
ReportDevice ==
    /\ pc = "report"
    /\ LET header == [ev |-> "header", device |-> device]
           body == [ev |-> "body", device |-> device, prop |-> prop]
       IN  events' = events \o <<header, body>> \o
                     (IF NeedSeparator(device, deviceCount)
                      THEN <<Ev("separator")>> ELSE <<>>)
    /\ device' = NextDevice(device)
    /\ pc' = "loop"
    /\ UNCHANGED <<deviceCount, prop, exitCode, outcome, unitVars>>

\* Line 157: the loop has ended, return 0.
ReturnFromMain ==
    /\ pc = "loop"
    /\ ~(device < deviceCount)
    /\ pc' = "exit"
    /\ exitCode' = SuccessExitCode
    /\ UNCHANGED <<deviceCount, device, prop, events, outcome, unitVars>>

\* ------------------------------------------------------------------------
\* Unit calls of the estimator functions on arguments drawn from bounded
\* sets of non-negative 32-bit values.
\* ------------------------------------------------------------------------

\* Compute capabilities tried: major in -1..MaxMajor, minor in 0..MaxMinor.
MaxMajor == 11

MaxMinor == 2

Majors == (0 - 1)..MaxMajor

Minors == 0..MaxMinor

\* 2147483647 is INT_MAX; 11184811 * 192 is the first Kepler product above it.
SMCounts == {0, 1, 108, 11184811, 2147483647}

ClockRates == {0, 1410, 310000, 320000, 1410000, 2147483647}

MemoryClockRates == {0, 1215, 1215000, 2147483647}

BusWidths == {0, 8, 5120, 2147483647}

\* One call of getTheoreticalGFLOPS: its arguments, the local coresPerSM
\* and the returned value.
GCall(major, minor, sm, clock, oc) ==
    [done |-> TRUE, major |-> major, minor |-> minor,
     multiProcessorCount |-> sm, clockRate |-> clock,
     coresPerSM |-> coresPerSM(major, minor),
     ret |-> getTheoreticalGFLOPS(major, minor, sm, clock, oc)]

NoGCall ==
    [done |-> FALSE, major |-> 0, minor |-> 0, multiProcessorCount |-> 0,
     clockRate |-> 0, coresPerSM |-> 0, ret |-> Lit(0, 1)]

\* One call of getMemoryBandwidth.
BCall(memClock, busWidth) ==
    [done |-> TRUE, memoryClockRate |-> memClock, memoryBusWidth |-> busWidth,
     ret |-> getMemoryBandwidth(memClock, busWidth)]

NoBCall ==
    [done |-> FALSE, memoryClockRate |-> 0, memoryBusWidth |-> 0,
     ret |-> Lit(0, 1)]

UnitInit ==
    /\ hG = NoGCall
    /\ hPrevG = NoGCall
    /\ hB = NoBCall

CallGFLOPS ==
    /\ ~hG.done /\ ~hB.done
    /\ \E major \in Majors, minor \in Minors, sm \in SMCounts, clock \in ClockRates :
          hG' = GCall(major, minor, sm, clock, outcome)
    /\ UNCHANGED <<hPrevG, hB, outcome, mainVars>>

\* A second call for the same device generation at a higher clock rate.
RaiseClockRate ==
    /\ hG.done /\ ~hPrevG.done
    /\ \E clock \in ClockRates :
          /\ clock > hG.clockRate
          /\ hG' = GCall(hG.major, hG.minor, hG.multiProcessorCount, clock, outcome)
    /\ hPrevG' = hG
    /\ UNCHANGED <<hB, outcome, mainVars>>

\* A second call for the same device generation with more multiprocessors.
RaiseSMCount ==
    /\ hG.done /\ ~hPrevG.done
    /\ \E sm \in SMCounts :
          /\ sm > hG.multiProcessorCount
          /\ hG' = GCall(hG.major, hG.minor, sm, hG.clockRate, outcome)
    /\ hPrevG' = hG
    /\ UNCHANGED <<hB, outcome, mainVars>>

CallBandwidth ==
    /\ ~hG.done /\ ~hB.done
    /\ \E memClock \in MemoryClockRates, busWidth \in BusWidths :
          hB' = BCall(memClock, busWidth)
    /\ UNCHANGED <<hG, hPrevG, outcome, mainVars>>

\* ------------------------------------------------------------------------
\* Specifications.
\* ------------------------------------------------------------------------

Init ==
    /\ MainInit
    /\ UnitInit
    /\ outcome \in OverflowOutcomes

Next ==
    \/ GetDeviceCount
    \/ QueryDevice
    \/ ReportDevice
    \/ ReturnFromMain

\* One run of the program.
Spec == Init /\ [][Next]_vars

\* The program is sequential and every call it makes returns: a step that
\* is possible is eventually taken.
FairSpec == Spec /\ WF_vars(Next)

UnitNext ==
    \/ CallGFLOPS
    \/ RaiseClockRate
    \/ RaiseSMCount
    \/ CallBandwidth

\* The estimator functions called on their own.
SpecFn == Init /\ [][UnitNext]_vars

\* ------------------------------------------------------------------------
\* Properties.
\* ------------------------------------------------------------------------

\* Positions of the events of one kind.
At(name) == {i \in DOMAIN events : events[i].ev = name}

\* What the section printed at position i of the log shows.
Shown(i) == Section(events[i].prop, outcome)

Zero == Lit(0, 1)

\* C1: getTheoreticalGFLOPS returns exactly clusters * cores * clock * 2 / 1e6
\* for all non-negative 32-bit arguments, also when clusters * cores * clock
\* exceeds INT_MAX.  (The product is taken in the integers and then as the
\* nearest double; below 2^53 that is the product itself.)
C1_ExactThroughput ==
    hG.done =>
        LET exact == BigMul(BigMul(BigMul(Nat2Big(hG.coresPerSM),
                                          Nat2Big(hG.multiProcessorCount)),
                                   Nat2Big(hG.clockRate)), <<2>>)
        IN  DEq(hG.ret, Fin(FALSE, RoundDouble(exact), Nat2Big(1000000)))

\* C2: the core count is a total function of (major, minor): 32 for major 2,
\* 192 for 3, 128 for 5, 64 for 6.0 and 128 for other 6.x, 64 for 7.x, 64 for
\* 8.0 and 128 for other 8.x, 128 for 9, and 64 for every other major.
C2_CoreTable ==
    hG.done =>
        LET M == hG.major
            m == hG.minor
            documented ==
                CASE M = 2 -> 32
                  [] M = 3 -> 192
                  [] M = 5 -> 128
                  [] M = 6 /\ m = 0 -> 64
                  [] M = 6 /\ m # 0 -> 128
                  [] M = 7 -> 64
                  [] M = 8 /\ m = 0 -> 64
                  [] M = 8 /\ m # 0 -> 128
                  [] M = 9 -> 128
                  [] M = 4 \/ M <= 1 \/ M >= 10 -> 64
        IN  /\ hG.coresPerSM = documented
            /\ hG.ret.kind = "fin"

\* C2 witness: a call for a generation outside the table and one sub-case.
C2_Reached ==
    /\ hG.done
    /\ hG.major >= 10
    /\ hG.minor # 0
    /\ hG.coresPerSM = 64

\* C3: getMemoryBandwidth returns memoryClockRate * 2 * memoryBusWidth / 8000
\* for all non-negative 32-bit arguments: the product is the mathematical
\* one (as the nearest double, the product itself below 2^53), never a
\* product reduced modulo 2^32.
C3_ExactBandwidth ==
    hB.done =>
        LET exact == BigMul(BigMul(Nat2Big(hB.memoryClockRate), <<2>>),
                            Nat2Big(hB.memoryBusWidth))
        IN  /\ DEq(hB.ret, Fin(FALSE, RoundDouble(exact), Nat2Big(8000)))
            /\ Len(Big2Bits(exact)) <= DoubleMantissa =>
                   DEq(hB.ret, Fin(FALSE, exact, Nat2Big(8000)))

\* C3 witness: a call whose product exceeds INT_MAX.
C3_Reached ==
    /\ hB.done
    /\ BigCmp(BigMul(BigMul(Nat2Big(hB.memoryClockRate), <<2>>),
                     Nat2Big(hB.memoryBusWidth)), IntMax) > 0
    /\ hB.memoryClockRate = 1215000
    /\ DLess(Zero, hB.ret)

\* C4: in every section, each of the five reference workloads (intensities
\* 0.33, 2, 8, 40, 60) is labelled Memory Bound iff its intensity is below
\* the section's ridge point and Computing Bound otherwise; an intensity
\* equal to the ridge point is Computing Bound.
C4_Labels ==
    \A i \in At("body") :
        LET shown == Shown(i)
            R == shown.boundaryAI
            I == << Lit(33, 100), Lit(2, 1), Lit(8, 1), Lit(40, 1), Lit(60, 1) >>
        IN  /\ Len(shown.labels) = 5
            /\ \A k \in 1..5 :
                  /\ shown.labels[k] \in {"Memory Bound", "Computing Bound"}
                  /\ shown.labels[k] = "Memory Bound" <=> DLess(I[k], R)
                  /\ DEq(I[k], R) => shown.labels[k] = "Computing Bound"

\* C4 witness: a section whose ridge point is exactly 8: the workload at 2
\* is Memory Bound, the one at 8 is Computing Bound.
C4_Reached ==
    \E i \in At("body") :
        LET shown == Shown(i)
        IN  /\ DEq(shown.boundaryAI, Lit(8, 1))
            /\ shown.labels[2] = "Memory Bound"
            /\ shown.labels[3] = "Computing Bound"

\* C5: the exit code is 1 if the device-count query fails, the count is
\* zero or a property query fails, and 0 in every other run; there is no
\* other exit code.
C5_ExitCode ==
    pc = "exit" =>
        LET countFailed == \E i \in At("cudaGetDeviceCount") : ~events[i].ok
            countZero == \E i \in At("cudaGetDeviceCount") :
                            events[i].ok /\ events[i].count = 0
            propFailed == \E i \in At("cudaGetDeviceProperties") : ~events[i].ok
        IN  /\ exitCode \in {0, 1}
            /\ exitCode = 1 <=> (countFailed \/ countZero \/ propFailed)

\* C5 witness: a run that ended on a failed property query after a section.
C5_Reached ==
    /\ pc = "exit"
    /\ exitCode = 1
    /\ At("body") # {}
    /\ \E i \in At("cudaGetDeviceProperties") : ~events[i].ok

\* C6: when the property query of device i fails, the diagnostic is printed
\* and the program ends at once: nothing of a section of device i or a
\* later one is printed, no later device is queried, and the complete
\* sections of devices 0..i-1 are the only device output.
C6_FailFast ==
    \A p \in At("cudaGetDeviceProperties") :
        ~events[p].ok =>
            LET i == events[p].device
            IN  /\ pc = "exit"
                /\ exitCode = 1
                /\ Len(events) = p + 1
                /\ events[p + 1] = Stderr
                /\ \A q \in At("header") \cup At("body") : events[q].device < i
                /\ \A q \in At("cudaGetDeviceProperties") : events[q].device <= i
                /\ \A j \in 0..(i - 1) :
                      /\ Cardinality({q \in At("header") : events[q].device = j}) = 1
                      /\ Cardinality({q \in At("body") : events[q].device = j}) = 1

\* C6 witness: the query of device 1 failed after the section of device 0.
C6_Reached ==
    /\ \E p \in At("cudaGetDeviceProperties") :
          ~events[p].ok /\ events[p].device = 1
    /\ \E q \in At("body") : events[q].device = 0

\* C7: a run with N >= 1 devices whose queries all succeed prints exactly
\* N - 1 rule lines, each right after the section of a device i < N - 1 and
\* before the section of device i + 1, and none after the last section.
C7_Separators ==
    /\ \A s \in At("separator") :
          /\ s > 1
          /\ events[s - 1].ev = "body"
          /\ events[s - 1].device < deviceCount - 1
    /\ (pc = "exit" /\ exitCode = 0) =>
          /\ Cardinality(At("separator")) = deviceCount - 1
          /\ events[Len(events)].ev = "body"
          /\ events[Len(events)].device = deviceCount - 1
          /\ \A b \in At("body") :
                events[b].device < deviceCount - 1 =>
                    /\ events[b + 1].ev = "separator"
                    /\ events[b + 2].ev = "cudaGetDeviceProperties"
                    /\ events[b + 2].device = events[b].device + 1

\* C7 witness: a complete run over two devices with one rule line.
C7_Reached ==
    /\ pc = "exit"
    /\ exitCode = 0
    /\ deviceCount = 2
    /\ Cardinality(At("separator")) = 1

\* C8 (state part): the k-th property query is for device k - 1, so indices
\* are queried in ascending order and at most once; the query and the
\* section of device i precede the query of device i + 1; a run whose
\* queries all succeeded has reported each index exactly once.
C8_Order ==
    /\ \A p \in At("cudaGetDeviceProperties") :
          /\ events[p].device =
                 Cardinality({q \in At("cudaGetDeviceProperties") : q < p})
          /\ events[p].device < deviceCount
          /\ events[p].device > 0 =>
                \E q \in At("cudaGetDeviceProperties"), b \in At("body") :
                    /\ q < b /\ b < p
                    /\ events[q].device = events[p].device - 1
                    /\ events[q].ok
                    /\ events[b].device = events[p].device - 1
    /\ \A b \in At("body") :
          \E q \in At("cudaGetDeviceProperties") :
              q < b /\ events[q].device = events[b].device /\ events[q].ok
    /\ (pc = "exit" /\ exitCode = 0) =>
          \A j \in 0..(deviceCount - 1) :
              /\ Cardinality({q \in At("cudaGetDeviceProperties") :
                                 events[q].device = j}) = 1
              /\ Cardinality({b \in At("header") : events[b].device = j}) = 1
              /\ Cardinality({b \in At("body") : events[b].device = j}) = 1

\* C8: devices are processed strictly in ascending index order, one at a
\* time, each at most once, and the program terminates.
C8_InOrder == [](C8_Order) /\ <>(pc = "exit")

\* C8 witness: a complete run over every device the runtime can report.
C8_Reached ==
    /\ pc = "exit"
    /\ exitCode = 0
    /\ deviceCount >= 2
    /\ Cardinality(At("body")) = deviceCount

\* C9 as stated: whenever the bandwidth of a device is positive its ridge
\* point is strictly positive.
C9_RidgePositive ==
    \A i \in At("body") :
        LET shown == Shown(i)
        IN  DLess(Zero, shown.memoryBandwidth) => DLess(Zero, shown.boundaryAI)

\* C9 amended: whenever the bandwidth of a device is positive, its ridge
\* point has the sign of the throughput getTheoreticalGFLOPS returned:
\* positive iff that is positive, zero iff it is zero (as with
\* multiProcessorCount = 0 or clockRate = 0), negative iff it is negative.
C9_RidgeSign ==
    \A i \in At("body") :
        LET shown == Shown(i)
            T == shown.theoreticalGFLOPS
            R == shown.boundaryAI
        IN  DLess(Zero, shown.memoryBandwidth) =>
                /\ DLess(Zero, R) <=> DLess(Zero, T)
                /\ DEq(R, Zero) <=> DEq(T, Zero)
                /\ DLess(R, Zero) <=> DLess(T, Zero)

\* C9 witness: a device with positive bandwidth and no multiprocessor; its
\* throughput and its ridge point are both 0.
C9_Reached ==
    \E i \in At("body") :
        LET shown == Shown(i)
        IN  /\ DLess(Zero, shown.memoryBandwidth)
            /\ events[i].prop.multiProcessorCount = 0
            /\ DEq(shown.theoreticalGFLOPS, Zero)
            /\ DEq(shown.boundaryAI, Zero)

\* C10: for a fixed (major, minor), raising clockRate with
\* multiProcessorCount fixed, or multiProcessorCount with clockRate fixed,
\* never lowers the value getTheoreticalGFLOPS returns.
C10_Monotone ==
    hPrevG.done => ~DLess(hG.ret, hPrevG.ret)

====
